---- MODULE Spec2Model ----
(***************************************************************************)
(* Batch generation for labeling tasks (pyannote/audio/labeling/tasks/     *)
(* base.py): corpus indexing, the random and the exhaustive samplers, the  *)
(* number of batches per epoch and the round-robin batch assembler.        *)
(*                                                                         *)
(* Time is counted in ticks.  A segment is a pair <<start, end>> and       *)
(* stands for the half-open interval [start, end).  A timeline is a        *)
(* sequence of non-empty segments sorted by (start, end).                  *)
(***************************************************************************)
EXTENDS Integers, Sequences, FiniteSets, TLC

(***************************************************************************)
(* Bounds of the model                                                     *)
(***************************************************************************)
\* window duration of the samplers, in ticks
Duration == 2
\* number of files of the protocol subset
MaxFiles == 2
\* feature frame step, in ticks
FrameStep == 1

\* self.per_epoch, at most this many seconds (or days)
MaxPerEpoch == 4
\* self.batch_size
MaxBatchSize == 4
\* self.parallel
MaxParallel == 2
\* batches taken from the batch generator
MaxBatches == 9

\* longest annotated region of the catalogue: three windows
Horizon == 3 * Duration

\* largest number of classes of a task or of a model
MaxClasses == 3
\* largest batches_per_epoch handed to on_train_start
MaxLog == 2
\* largest number of batches handed to batch_loss
MaxTrainBatches == 3
\* largest number of scalars the writer receives
MaxScalars == 3

\* the checkpoints of a training directory are those of epochs 0..MaxEpoch
MaxEpoch == 2
\* largest number of evaluations of a search
MaxCalls == 3
\* the scores of a frame are 0..MaxScore
MaxScore == 2
\* largest number of frames of a prediction
MaxFrames == 4
\* largest number of files of the subset apply() runs on
MaxApplyFiles == 2
\* largest number of runs of apply() on the same directory
MaxRuns == 2

(***************************************************************************)
(* Segments and timelines (pyannote.core.Segment, pyannote.core.Timeline)  *)
(***************************************************************************)
Start(s) == s[1]
End(s) == s[2]
SegDuration(s) == End(s) - Start(s)
\* bool(segment): a segment is empty when end <= start
NonEmpty(s) == End(s) > Start(s)
\* segment & other
Intersect(s, t) ==
    << IF Start(s) > Start(t) THEN Start(s) ELSE Start(t),
       IF End(s) < End(t) THEN End(s) ELSE End(t) >>
\* other in segment
Contains(s, other) == Start(s) <= Start(other) /\ End(s) >= End(other)

Range(q) == { q[i] : i \in DOMAIN q }

SegBefore(s, t) == Start(s) < Start(t) \/ (Start(s) = Start(t) /\ End(s) <= End(t))

RECURSIVE SortSegs(_)
SortSegs(S) ==
    IF S = {} THEN << >>
    ELSE LET m == CHOOSE s \in S : \A t \in S : SegBefore(s, t)
         IN  << m >> \o SortSegs(S \ {m})

\* Timeline(segments): empty segments are dropped, the rest is kept sorted
\* and without duplicates
Timeline(segs) == SortSegs({ s \in Range(segs) : NonEmpty(s) })

\* timeline.crop(support, mode='intersection')
Crop(timeline, support) ==
    Timeline([ i \in DOMAIN timeline |-> Intersect(timeline[i], support) ])

RECURSIVE SumDurations(_)
SumDurations(segs) ==
    IF segs = << >> THEN 0
    ELSE SegDuration(Head(segs)) + SumDurations(Tail(segs))

(***************************************************************************)
(* The files a protocol subset may hold                                    *)
(***************************************************************************)
AnnotatedChoices ==
    { << >>,
      << <<0, Duration>> >>,
      << <<0, Horizon>> >>,
      << <<0, Duration + 1>>, <<Duration + 2, Horizon>> >>,
      << <<0, Duration + 1>>, <<Duration + 1, Horizon + 1>> >>,
      << <<Horizon - 1, Horizon + 1>> >> }

AudioDurations == { Horizon - 1, Horizon }

\* the files of database 2 are the long ones
DatabaseOf(audio) == IF audio = Horizon THEN 2 ELSE 1

FileChoices ==
    { [ audio |-> a, annotated |-> t, database |-> DatabaseOf(a) ] :
        a \in AudioDurations, t \in AnnotatedChoices }

Protocols == UNION { [ 1..n -> FileChoices ] : n \in 0..MaxFiles }

(***************************************************************************)
(* State                                                                   *)
(***************************************************************************)
VARIABLES
    protocol,       \* the files of the subset, in protocol order
    duration,       \* self.duration: the window duration, in ticks
    exhaustive,     \* self.exhaustive
    shuffle,        \* self.shuffle
    pc,             \* position in initialize(): loop1, loop2, initialized, KeyError
    i,              \* index of the next file of the running loop
    data_,          \* self.data_: uri -> datum
    labels_,        \* self.labels_, << >> before it is set
    databases_,     \* self.databases_, << >> before it is set
    gpc,            \* position in the sample generator
    uris,           \* list(self.data_), shuffled in place by every pass
    probabilities,  \* durations / np.sum(durations), as fractions
    sample,         \* the sample handed out at the yield the generator rests at
    k,              \* index in order of the file being served
    annotated,      \* shifted 'annotated' timeline of the copy of the file
    pending,        \* windows of the file not yet yielded, in yield order
    visited,        \* files visited in the running pass
    emitted,        \* windows of the file being served yielded so far
    batch_size,     \* self.batch_size
    per_epoch,      \* self.per_epoch, in days, as a fraction
    parallel,       \* self.parallel
    cpc,            \* position in __call__()
    batches_per_epoch,  \* the local of __call__(), 0 before it is set
    generators,     \* the batch generators of __call__(), with their prefetch
    queues,         \* number of batches each generator holds ready
    current,        \* index of the generator being served
    served,         \* batches taken from it in the running epoch
    yielded,        \* the generator every yielded batch came from
    tpc,            \* LabelingTask: constructed, training, or raised
    error,          \* LabelingTask: the exception raised, or none
    task_type,      \* self.task_type of the task
    n_classes,      \* self.n_classes of the task
    weight,         \* self.weight: None or a tensor
    model_n_classes,    \* model.n_classes of the model handed to the task
    loss_func_,     \* self.loss_func_ is set
    log_y_pred_,    \* self.log_y_pred_
    log_y_true_,    \* self.log_y_true_
    batches,        \* number of batches handed to batch_loss so far
    losses,         \* number of losses batch_loss has returned
    scalars,        \* number of scalars the writer has received
    weights,        \* the epochs train_dir holds a checkpoint of
    request,        \* the arguments start, end and at of tune()
    upc,            \* position in tune()
    tune_dir,       \* tune_dir exists
    epoch,          \* tune(): the number of epochs at launch time
    start,          \* tune(): start, None or an epoch
    end,            \* tune(): end
    best_params,    \* tune(): epoch -> thresholds
    best_metric,    \* tune(): epoch -> metric
    tuned,          \* epoch -> number of calls of tune_binarizer
    next_x,         \* the point gp_minimize has the objective evaluate
    next_y,         \* what the objective returned for it
    res,            \* the result of gp_minimize so far: res.x, res.fun
    calls,          \* evaluations gp_minimize has been told
    tune_yml,       \* the content of tune.yml, None if there is no file
    items,          \* apply(): the files of the subset, with the scores
                    \* sequence_labeling.apply gives for them
    apc,            \* position in apply()
    item,           \* apply(): index of the file of the running loop
    tune_,          \* self.tune_
    config,         \* the metadata file of apply_dir, None if there is none
    config_writes,  \* times the running call of apply() wrote that file
    store,          \* uri -> the 'features' dataset of the file of the uri
    mdtm,           \* the records of the MDTM file
    runs            \* number of calls of apply()

indexVars == << pc, i, data_, labels_, databases_ >>
randomVars == << uris, probabilities >>
slidingVars == << k, annotated, pending, visited, emitted >>
paramVars == << protocol, duration, exhaustive, shuffle, batch_size, per_epoch, parallel >>
callVars == << cpc, batches_per_epoch, generators, queues, current, served, yielded >>
generatorVars ==
    << paramVars, indexVars, gpc, randomVars, sample, slidingVars, callVars >>
taskVars ==
    << tpc, error, task_type, n_classes, weight, model_n_classes, loss_func_,
       log_y_pred_, log_y_true_, batches, losses, scalars >>
tuneVars ==
    << weights, request, upc, tune_dir, epoch, start, end, best_params,
       best_metric, tuned, next_x, next_y, res, calls, tune_yml >>
applyVars ==
    << items, apc, item, tune_, config, config_writes, store, mdtm, runs >>
\* what no method of LabelingTaskGenerator touches
restVars == << taskVars, tuneVars, applyVars >>
vars == << generatorVars, restVars >>

NoSample == [ uri |-> 0 ]
NoY == [ support |-> << >>, computed |-> FALSE ]

(***************************************************************************)
(* initialize()                                                            *)
(***************************************************************************)
\* get_annotated(current_file)
get_annotated(current_file) == current_file.annotated

\* lines 121-123: 'annotated' cropped to the actual file duration
CroppedAnnotated(current_file) ==
    Crop(get_annotated(current_file), << 0, current_file.audio >>)

\* variant: segments at least as long as the window
LongSegmentsGe(timeline) ==
    SelectSeq(timeline, LAMBDA s : SegDuration(s) >= duration)

\* variant: no segment is filtered out
LongSegmentsAll(timeline) == timeline

\* lines 140-141: segments longer than the window
LongSegments(timeline) ==
    SelectSeq(timeline, LAMBDA s : SegDuration(s) > duration)

\* lines 153-155
Datum(current_file) ==
    LET cropped == CroppedAnnotated(current_file)
        segments == LongSegments(cropped)
    IN  [ segments |-> segments,
          duration |-> SumDurations(segments),
          current_file |-> [ current_file EXCEPT !.annotated = cropped ],
          y |-> NoY ]

\* self.data_[uri] = datum
Store(data, uri, datum) ==
    [ u \in DOMAIN data \cup {uri} |-> IF u = uri THEN datum ELSE data[u] ]

\* lines 118-157: one iteration of the first loop; a file without a long
\* segment is skipped
IndexFile ==
    /\ pc = "loop1"
    /\ i <= Len(protocol)
    /\ LET datum == Datum(protocol[i])
       IN  data_' = IF datum.segments = << >> THEN data_
                    ELSE Store(data_, i, datum)
    /\ i' = i + 1
    /\ UNCHANGED << restVars, pc, labels_, databases_, paramVars, callVars,
                    gpc, randomVars, sample, slidingVars >>

\* line 129: databases.add(current_file['database']), for every file
Databases(files) == { files[j].database : j \in DOMAIN files }

\* lines 124-125 and 132: the labels of the cropped annotation of the file,
\* which holds one speech turn per annotated region, labelled by the
\* position of the region
Labels(current_file) ==
    { j \in DOMAIN get_annotated(current_file) :
        NonEmpty(Intersect(get_annotated(current_file)[j],
                           << 0, current_file.audio >>)) }

\* sorted(...)
RECURSIVE Sorted(_)
Sorted(S) ==
    IF S = {} THEN << >>
    ELSE LET m == CHOOSE x \in S : \A y \in S : x <= y
         IN  << m >> \o Sorted(S \ {m})

\* lines 159-160: the first loop is over, the databases and the labels it
\* met (in skipped files too) are kept sorted
EndIndex ==
    /\ pc = "loop1"
    /\ i > Len(protocol)
    /\ databases_' = Sorted(Databases(protocol))
    /\ labels_' = Sorted(UNION { Labels(protocol[j]) : j \in DOMAIN protocol })
    /\ pc' = "loop2"
    /\ i' = 1
    /\ UNCHANGED << restVars, data_, paramVars, callVars, gpc, randomVars,
                    sample, slidingVars >>

\* lines 164-167: y is encoded over the 'annotated' timeline of the file as
\* the protocol yields it in the second loop
EncodedY(current_file) ==
    [ support |-> get_annotated(current_file), computed |-> TRUE ]

\* variant: the second loop passes over a file the first loop skipped
RasterFileSkipsMissing ==
    /\ pc = "loop2"
    /\ i <= Len(protocol)
    /\ data_' = IF i \in DOMAIN data_
                THEN [ data_ EXCEPT ![i].y = EncodedY(protocol[i]) ]
                ELSE data_
    /\ i' = i + 1
    /\ UNCHANGED << restVars, pc, labels_, databases_, paramVars, callVars,
                    gpc, randomVars, sample, slidingVars >>

\* lines 162-172: one iteration of the second loop; self.data_[uri] raises
\* KeyError for a file the first loop skipped
RasterFile ==
    /\ pc = "loop2"
    /\ i <= Len(protocol)
    /\ IF i \in DOMAIN data_
       THEN /\ data_' = [ data_ EXCEPT ![i].y = EncodedY(protocol[i]) ]
            /\ i' = i + 1
            /\ pc' = pc
       ELSE /\ pc' = "KeyError"
            /\ UNCHANGED << data_, i >>
    /\ UNCHANGED << restVars, labels_, databases_, paramVars, callVars, gpc,
                    randomVars, sample, slidingVars >>

\* line 162: the second loop is over, initialize() returns
EndInitialize ==
    /\ pc = "loop2"
    /\ i > Len(protocol)
    /\ pc' = "initialized"
    /\ UNCHANGED << restVars, i, data_, labels_, databases_, paramVars,
                    callVars, gpc, randomVars, sample, slidingVars >>

\* lines 179-183: samples() creates the generator of the configured mode
Samples ==
    /\ pc = "initialized"
    /\ cpc = "none"
    /\ gpc = "none"
    /\ gpc' = IF exhaustive THEN "sliding_samples" ELSE "random_samples"
    /\ UNCHANGED << restVars, paramVars, callVars, indexVars, randomVars,
                    sample, slidingVars >>

(***************************************************************************)
(* Fractions, for the sampling weights                                     *)
(***************************************************************************)
RECURSIVE GCD(_, _)
GCD(a, b) == IF b = 0 THEN a ELSE GCD(b, a % b)

\* n / d in lowest terms, d > 0
Frac(n, d) == LET g == GCD(n, d) IN [ num |-> n \div g, den |-> d \div g ]

FracAdd(a, b) == Frac(a.num * b.den + b.num * a.den, a.den * b.den)

RECURSIVE FracSum(_)
FracSum(ps) ==
    IF ps = << >> THEN [ num |-> 0, den |-> 1 ]
    ELSE FracAdd(Head(ps), FracSum(Tail(ps)))

RECURSIVE Sum(_)
Sum(xs) == IF xs = << >> THEN 0 ELSE Head(xs) + Sum(Tail(xs))

(***************************************************************************)
(* Cropping to a window (feature_extraction.crop, SlidingWindowFeature.crop)*)
(***************************************************************************)
\* np.rint(a / b): to the nearest integer, halves to the even one
Rint(a, b) ==
    LET q == a \div b
        r == a % b
    IN  IF 2 * r < b THEN q
        ELSE IF 2 * r > b THEN q + 1
        ELSE IF q % 2 = 0 THEN q ELSE q + 1

\* index of the frame whose centre is closest to time t
ClosestFrame(t) == Rint(2 * t - FrameStep, 2 * FrameStep)

\* number of frames of crop(focus, mode='center', fixed=...); fixed = 0
\* stands for fixed=None
NumFrames(args) ==
    IF args.fixed > 0
    THEN Rint(args.fixed, FrameStep)
    ELSE ClosestFrame(End(args.focus)) - ClosestFrame(Start(args.focus)) + 1

\* lines 214-216 and 259-260: the crop that gives X
XCrop(sequence) == [ focus |-> sequence, mode |-> "center", fixed |-> duration ]

\* variant: y cropped without fixed=self.duration
YCropNotFixed(sequence) == [ focus |-> sequence, mode |-> "center", fixed |-> 0 ]

\* lines 218 and 262-263: the crop that gives y
YCrop(sequence) == [ focus |-> sequence, mode |-> "center", fixed |-> duration ]

\* lines 214-220 and 259-265
Sample(uri, segment, sequence) ==
    [ uri |-> uri, segment |-> segment, sequence |-> sequence,
      X |-> [ crop |-> XCrop(sequence), frames |-> NumFrames(XCrop(sequence)) ],
      y |-> [ crop |-> YCrop(sequence), frames |-> NumFrames(YCrop(sequence)) ] ]

(***************************************************************************)
(* random_samples()                                                        *)
(***************************************************************************)
\* list(self.data_): the keys in insertion order
RECURSIVE Ascending(_)
Ascending(S) ==
    IF S = {} THEN << >>
    ELSE LET m == CHOOSE x \in S : \A y \in S : x <= y
         IN  << m >> \o Ascending(S \ {m})

ListUris(data) == Ascending(DOMAIN data)

\* line 195
Durations(data, us) == [ j \in DOMAIN us |-> data[us[j]].duration ]

\* variant: durations over the number of files
ProbabilitiesByCount(durations) ==
    [ j \in DOMAIN durations |-> Frac(durations[j], Len(durations)) ]

\* line 196: durations / np.sum(durations)
Probabilities(durations) ==
    [ j \in DOMAIN durations |-> Frac(durations[j], Sum(durations)) ]

\* lines 194-196, run when the first sample is requested
RandomStart ==
    /\ gpc = "random_samples"
    /\ uris' = ListUris(data_)
    /\ probabilities' = Probabilities(Durations(data_, ListUris(data_)))
    /\ gpc' = "random_loop"
    /\ UNCHANGED << restVars, paramVars, callVars, indexVars, sample,
                    slidingVars >>

\* np.random.choice(n, p=p) raises ValueError when n = 0 or p does not sum to 1
ChoiceRaises(n, p) == n = 0 \/ FracSum(p) # [ num |-> 1, den |-> 1 ]

\* np.random.choice(n, p=p): an index of positive probability
Choice(n, p) == { j \in 1..n : p[j].num > 0 }

\* random_segment(segments, weighted=True): a segment of positive duration
random_segment(segments) == { s \in Range(segments) : SegDuration(s) > 0 }

\* random_subsegment(segment, duration):
\*   t = segment.start + random() * (segment.duration - duration)
\* (no outcome when duration > segment.duration: ValueError is raised)
random_subsegment(segment, length) ==
    IF length > SegDuration(segment) THEN {}
    ELSE { << Start(segment) + r, Start(segment) + r + length >> :
             r \in {0} \cup 0..(SegDuration(segment) - length - 1) }

\* variant: a window one tick longer than self.duration
SubsegmentLonger(segment) == random_subsegment(segment, duration + 1)

\* line 212: the window asked of random_subsegment
Subsegment(segment) == random_subsegment(segment, duration)

\* lines 198-220: one iteration of the loop, up to the yield
RandomDraw ==
    /\ gpc = "random_loop"
    /\ IF ChoiceRaises(Len(uris), probabilities)
       THEN /\ gpc' = "ValueError"
            /\ sample' = NoSample
       ELSE \E j \in Choice(Len(uris), probabilities) :
                \E segment \in random_segment(data_[uris[j]].segments) :
                    IF Subsegment(segment) = {}
                    THEN /\ gpc' = "ValueError"
                         /\ sample' = NoSample
                    ELSE /\ \E sequence \in Subsegment(segment) :
                                sample' = Sample(uris[j], segment, sequence)
                         /\ gpc' = gpc
    /\ UNCHANGED << restVars, paramVars, callVars, indexVars, randomVars,
                    slidingVars >>

(***************************************************************************)
(* sliding_samples()                                                       *)
(***************************************************************************)
\* variant: every place takes any of the entries, as drawn with replacement
PermsWithReplacement(q) == [ DOMAIN q -> Range(q) ]

Perms(q) ==
    { p \in [ DOMAIN q -> Range(q) ] :
        \E f \in [ DOMAIN q -> DOMAIN q ] :
            /\ \A a, b \in DOMAIN q : a # b => f[a] # f[b]
            /\ \A a \in DOMAIN q : p[a] = q[f[a]] }

\* lines 224-230, run when the first sample is requested
SlidingStart ==
    /\ gpc = "sliding_samples"
    /\ uris' = ListUris(data_)
    /\ probabilities' = Probabilities(Durations(data_, ListUris(data_)))
    /\ gpc' = "sliding_loop"
    /\ UNCHANGED << restVars, paramVars, callVars, indexVars, sample,
                    slidingVars >>

\* lines 232-234: a pass starts with np.random.shuffle(uris)
SlidingShuffle ==
    /\ gpc = "sliding_loop"
    /\ uris' \in Perms(uris)
    /\ k' = 1
    /\ visited' = << >>
    /\ gpc' = "sliding_file"
    /\ UNCHANGED << restVars, paramVars, callVars, indexVars, probabilities,
                    sample, annotated, pending, emitted >>

\* lines 249-251: every region starts later by np.random.random() * duration
Shifted(timeline, shifts) ==
    Timeline([ j \in DOMAIN timeline |->
                 << Start(timeline[j]) + shifts[j], End(timeline[j]) >> ])

\* variant: a step shorter than the window
SlidingStepShort == duration - 1

\* line 229: step=self.duration
SlidingStep == duration

\* the windows SlidingSegments(duration, step) cuts out of a region: those
\* that start at start + n * step, before the end of the region, and lie
\* inside the region
RECURSIVE Windows(_, _)
Windows(region, from) ==
    IF from >= End(region) THEN << >>
    ELSE (IF Contains(region, << from, from + duration >>)
          THEN << << from, from + duration >> >> ELSE << >>)
         \o Windows(region, from + SlidingStep)

\* sliding_segments.from_file(current_file), source='annotated'
RECURSIVE from_file(_)
from_file(timeline) ==
    IF timeline = << >> THEN << >>
    ELSE Windows(Head(timeline), Start(Head(timeline))) \o from_file(Tail(timeline))

\* variant: line 252 assigns to the file record of the index itself
AssignAnnotatedInPlace(data, uri, timeline) ==
    [ data EXCEPT ![uri].current_file.annotated = timeline ]

\* lines 242 and 252: the index after current_file['annotated'] = Timeline(...),
\* current_file being the copy dict(datum['current_file']) of line 242
AssignAnnotated(data, uri, timeline) == data

\* lines 239-257 and 272-273: the copy of the file gets its shifted timeline
\* and the windows of the file are laid out (shuffled if self.shuffle)
SlidingFile ==
    /\ gpc = "sliding_file"
    /\ k <= Len(uris)
    /\ LET current_file == data_[uris[k]].current_file
           regions == get_annotated(current_file)
       IN  \E shifts \in [ DOMAIN regions -> 0..(duration - 1) ] :
               /\ annotated' = Shifted(regions, shifts)
               /\ data_' = AssignAnnotated(data_, uris[k], Shifted(regions, shifts))
               /\ IF shuffle
                  THEN pending' \in Perms(from_file(Shifted(regions, shifts)))
                  ELSE pending' = from_file(Shifted(regions, shifts))
    /\ visited' = Append(visited, uris[k])
    /\ emitted' = << >>
    /\ gpc' = "sliding_yield"
    /\ UNCHANGED << restVars, paramVars, callVars, pc, i, labels_, databases_,
                    randomVars, sample, k >>

\* lines 259-270 and 274-275: the next window of the file is yielded
SlidingYield ==
    /\ gpc = "sliding_yield"
    /\ pending # << >>
    /\ LET sequence == Head(pending)
           region == CHOOSE r \in Range(annotated) : Contains(r, sequence)
       IN  sample' = Sample(uris[k], region, sequence)
    /\ emitted' = Append(emitted, Head(pending))
    /\ pending' = Tail(pending)
    /\ UNCHANGED << restVars, paramVars, callVars, indexVars, gpc, randomVars,
                    k, annotated, visited >>

\* line 237: the generator is resumed, the file has no window left: on to
\* the next file (the locals of the file are dead from here on)
SlidingNextFile ==
    /\ gpc = "sliding_yield"
    /\ pending = << >>
    /\ k' = k + 1
    /\ sample' = NoSample
    /\ annotated' = << >>
    /\ emitted' = << >>
    /\ gpc' = "sliding_file"
    /\ UNCHANGED << restVars, paramVars, callVars, indexVars, randomVars,
                    pending, visited >>

\* line 232: the pass is over, back to the top of the loop
SlidingEndPass ==
    /\ gpc = "sliding_file"
    /\ k > Len(uris)
    /\ gpc' = "sliding_loop"
    /\ UNCHANGED << restVars, paramVars, callVars, indexVars, randomVars,
                    sample, slidingVars >>

(***************************************************************************)
(* The samplers, from the construction of the generator on                 *)
(***************************************************************************)
\* the state before initialize() has indexed a file
Constructed ==
    /\ pc = "loop1"
    /\ i = 1
    /\ data_ = << >>
    /\ labels_ = << >>
    /\ databases_ = << >>
    /\ gpc = "none"
    /\ uris = << >>
    /\ probabilities = << >>
    /\ sample = NoSample
    /\ k = 0
    /\ annotated = << >>
    /\ pending = << >>
    /\ visited = << >>
    /\ emitted = << >>
    /\ batches_per_epoch = 0
    /\ generators = << >>
    /\ queues = << >>
    /\ current = 0
    /\ served = 0
    /\ yielded = << >>

\* a deque that has not been created
NoDeque == [ made |-> FALSE, bounded |-> FALSE, maxlen |-> 0, items |-> << >> ]

\* LabelingTask.__init__: nothing is set up before on_train_start
TaskConstructed ==
    /\ tpc = "constructed"
    /\ error = "none"
    /\ loss_func_ = FALSE
    /\ log_y_pred_ = NoDeque
    /\ log_y_true_ = NoDeque
    /\ batches = 0
    /\ losses = 0
    /\ scalars = 0

\* no task is looked at
NoTask ==
    /\ task_type = "TASK_CLASSIFICATION"
    /\ n_classes = 1
    /\ weight = "None"
    /\ model_n_classes = 1
    /\ TaskConstructed

None == << >>

\* the application before tune() or apply() is called
ApplicationConstructed ==
    /\ tune_dir = FALSE
    /\ epoch = 0
    /\ start = None
    /\ end = 0
    /\ best_params = << >>
    /\ best_metric = << >>
    /\ tuned = << >>
    /\ next_x = None
    /\ next_y = None
    /\ res = None
    /\ calls = 0
    /\ item = 0
    /\ tune_ = None
    /\ config = None
    /\ config_writes = 0
    /\ store = << >>
    /\ mdtm = << >>
    /\ runs = 0

\* no application is looked at
NoApplication ==
    /\ weights = {}
    /\ request = [ start |-> None, end |-> None, at |-> None ]
    /\ upc = "none"
    /\ tune_yml = None
    /\ items = << >>
    /\ apc = "none"
    /\ ApplicationConstructed

Init ==
    /\ protocol \in Protocols
    /\ duration = Duration
    /\ exhaustive \in BOOLEAN
    /\ shuffle \in BOOLEAN
    /\ batch_size = 1
    /\ per_epoch = [ num |-> 1, den |-> 1 ]
    /\ parallel = 0
    /\ cpc = "none"
    /\ Constructed
    /\ NoTask
    /\ NoApplication

Next ==
    \/ IndexFile
    \/ EndIndex
    \/ RasterFile
    \/ EndInitialize
    \/ Samples
    \/ RandomStart
    \/ RandomDraw
    \/ SlidingStart
    \/ SlidingShuffle
    \/ SlidingFile
    \/ SlidingYield
    \/ SlidingNextFile
    \/ SlidingEndPass

Spec == Init /\ [][Next]_vars

(***************************************************************************)
(* sliding_samples() with every request of a sample followed up            *)
(***************************************************************************)
\* a window one tick longer than Duration: a region one tick longer than
\* the window then holds a window only when its shift is 0 or 1
SlidingDuration == Duration + 1

\* files of full length with no region, a region one tick longer than the
\* window, or a region of the whole file
SlidingFiles ==
    { [ audio |-> Horizon, annotated |-> t, database |-> DatabaseOf(Horizon) ] :
        t \in { << >>,
                << << 0, SlidingDuration + 1 >> >>,
                << << 0, Horizon >> >>,
                << << 0, SlidingDuration + 1 >>,
                   << SlidingDuration + 1, Horizon >> >> } }

SlidingProtocols == UNION { [ 1..n -> SlidingFiles ] : n \in 0..MaxFiles }

InitSliding ==
    /\ protocol \in SlidingProtocols
    /\ duration = SlidingDuration
    /\ exhaustive = TRUE
    /\ shuffle \in BOOLEAN
    /\ batch_size = 1
    /\ per_epoch = [ num |-> 1, den |-> 1 ]
    /\ parallel = 0
    /\ cpc = "none"
    /\ Constructed
    /\ NoTask
    /\ NoApplication

NextSliding ==
    \/ IndexFile
    \/ EndIndex
    \/ RasterFile
    \/ EndInitialize
    \/ Samples
    \/ SlidingStart
    \/ SlidingShuffle
    \/ SlidingFile
    \/ SlidingYield
    \/ SlidingNextFile
    \/ SlidingEndPass

\* lines 249-251: the shifts np.random.random() gives leave room for a
\* window in the file
ShiftsLeaveAWindow == SlidingFile /\ pending' # << >>

\* the code runs on whenever it can (every sample asked for is waited
\* for), and the draws of np.random.random() are independent: shifts that
\* leave a window are not avoided for ever
SlidingFairness ==
    /\ WF_vars(NextSliding)
    /\ SF_vars(ShiftsLeaveAWindow)

SpecSliding == InitSliding /\ [][NextSliding]_vars /\ SlidingFairness

(***************************************************************************)
(* batches_per_epoch                                                       *)
(***************************************************************************)
\* line 285: 24 * 60 * 60
SecondsPerDay == 24 * 60 * 60

\* np.ceil of the quotient a / b of two positive numbers
Ceil(a, b) == IF a % b = 0 THEN a \div b ELSE (a \div b) + 1

\* variant: the quotient rounded down
BatchesPerEpochFloor(pe, window, size) ==
    (pe.num * SecondsPerDay) \div (pe.den * (window * size))

\* variant: batch_size multiplies the epoch instead of the window
BatchesPerEpochTimes(pe, window, size) ==
    Ceil(pe.num * SecondsPerDay * size, pe.den * window)

\* lines 285-287, per_epoch being the fraction pe.num / pe.den of a day:
\*   duration_per_epoch = per_epoch * 24 * 60 * 60
\*   duration_per_batch = duration * batch_size
\*   int(np.ceil(duration_per_epoch / duration_per_batch))
BatchesPerEpoch(pe, window, size) ==
    Ceil(pe.num * SecondsPerDay, pe.den * (window * size))

\* lines 282-287: the property is read
ReadBatchesPerEpoch ==
    /\ cpc = "property"
    /\ batches_per_epoch' = BatchesPerEpoch(per_epoch, duration, batch_size)
    /\ cpc' = "read"
    /\ UNCHANGED << restVars, paramVars, indexVars, gpc, randomVars, sample,
                    slidingVars, generators, queues, current, served,
                    yielded >>

BatchSizes == 1..MaxBatchSize
Seconds == { [ num |-> n, den |-> SecondsPerDay ] : n \in 1..MaxPerEpoch }
Days == { [ num |-> n, den |-> 1 ] : n \in 1..MaxPerEpoch }

InitBPE ==
    /\ protocol = << >>
    /\ duration \in 1..Horizon
    /\ exhaustive = FALSE
    /\ shuffle = FALSE
    /\ batch_size \in BatchSizes
    /\ per_epoch \in Seconds \cup Days
    /\ parallel = 0
    /\ cpc = "property"
    /\ Constructed
    /\ NoTask
    /\ NoApplication

NextBPE == ReadBatchesPerEpoch

SpecBPE == InitBPE /\ [][NextBPE]_vars

(***************************************************************************)
(* __call__()                                                              *)
(***************************************************************************)
\* variant: __call__() does not wait for initialize()
InitializeNotAwaited == TRUE

\* line 297: the call self.initialize(protocol, subset=subset) has returned
InitializeReturned == pc = "initialized"

\* line 300
CallBatchesPerEpoch ==
    /\ cpc = "call"
    /\ InitializeReturned
    /\ batches_per_epoch' = BatchesPerEpoch(per_epoch, duration, batch_size)
    /\ cpc' = "generators"
    /\ UNCHANGED << restVars, paramVars, indexVars, gpc, randomVars, sample,
                    slidingVars, generators, queues, current, served,
                    yielded >>

\* variant: queues that hold one batch more than an epoch
GeneratorsLongerQueue(n, prefetch) ==
    IF n > 0 THEN [ j \in 1..n |-> [ prefetch |-> prefetch + 1 ] ]
    ELSE << [ prefetch |-> 0 ] >>

\* variant: the only generator of parallel = 0 prefetches an epoch too
GeneratorsAlwaysPrefetch(n, prefetch) ==
    IF n > 0 THEN [ j \in 1..n |-> [ prefetch |-> prefetch ] ]
    ELSE << [ prefetch |-> prefetch ] >>

\* lines 302-329: one prefetching generator per unit of parallel, or one
\* generator without prefetching
Generators(n, prefetch) ==
    IF n > 0 THEN [ j \in 1..n |-> [ prefetch |-> prefetch ] ]
    ELSE << [ prefetch |-> 0 ] >>

CreateGenerators ==
    /\ cpc = "generators"
    /\ generators' = Generators(parallel, batches_per_epoch)
    /\ queues' = [ j \in DOMAIN Generators(parallel, batches_per_epoch) |-> 0 ]
    /\ current' = 1
    /\ served' = 0
    /\ cpc' = "serving"
    /\ UNCHANGED << restVars, paramVars, indexVars, gpc, randomVars, sample,
                    slidingVars, batches_per_epoch, yielded >>

\* the sampler behind a generator has samples to give
SamplerYields == DOMAIN data_ # {}

\* a prefetching generator puts one more batch in its queue (batchify with
\* prefetch > 0), unless the queue is full
Produce(j) ==
    /\ cpc = "serving"
    /\ generators[j].prefetch > 0
    /\ queues[j] < generators[j].prefetch
    /\ SamplerYields
    /\ queues' = [ queues EXCEPT ![j] = @ + 1 ]
    /\ UNCHANGED << restVars, paramVars, indexVars, gpc, randomVars, sample,
                    slidingVars, cpc, batches_per_epoch, generators, current,
                    served, yielded >>

\* variant: the generator served never changes
NextGeneratorSame(g) == g

\* line 333: the generator after g, the first one after the last one
NextGenerator(g) == IF g = Len(generators) THEN 1 ELSE g + 1

\* lines 332-337: next(batches) on the generator being served, and the yield;
\* after batches_per_epoch batches the next generator is served
Serve ==
    /\ cpc = "serving"
    /\ Len(yielded) < MaxBatches
    /\ IF generators[current].prefetch > 0
       THEN /\ queues[current] > 0
            /\ queues' = [ queues EXCEPT ![current] = @ - 1 ]
       ELSE /\ SamplerYields
            /\ queues' = queues
    /\ yielded' = Append(yielded, current)
    /\ IF served + 1 = batches_per_epoch
       THEN /\ current' = NextGenerator(current)
            /\ served' = 0
       ELSE /\ current' = current
            /\ served' = served + 1
    /\ UNCHANGED << restVars, paramVars, indexVars, gpc, randomVars, sample,
                    slidingVars, cpc, batches_per_epoch, generators >>

\* the subsets of at most one file
CallProtocols == { p \in Protocols : Len(p) <= 1 }

InitCall ==
    /\ protocol \in CallProtocols
    /\ duration = Duration
    /\ exhaustive = FALSE
    /\ shuffle = FALSE
    /\ batch_size \in BatchSizes
    /\ per_epoch \in Seconds
    /\ parallel \in 0..MaxParallel
    /\ cpc = "call"
    /\ Constructed
    /\ NoTask
    /\ NoApplication

NextCall ==
    \/ IndexFile
    \/ EndIndex
    \/ RasterFile
    \/ EndInitialize
    \/ CallBatchesPerEpoch
    \/ CreateGenerators
    \/ \E j \in DOMAIN generators : Produce(j)
    \/ Serve

SpecCall == InitCall /\ [][NextCall]_vars

(***************************************************************************)
(* LabelingTask                                                            *)
(***************************************************************************)
TaskTypes ==
    { "TASK_CLASSIFICATION", "TASK_MULTI_LABEL_CLASSIFICATION",
      "TASK_REGRESSION" }

\* deque([], maxlen=batches_per_epoch); batches_per_epoch is None by default
Deque(given, maxlen) ==
    [ made |-> TRUE, bounded |-> given, maxlen |-> maxlen, items |-> << >> ]

\* variant: nothing is ever dropped
DequeAppendKeepsAll(d, x) == [ d EXCEPT !.items = Append(d.items, x) ]

\* deque.append: a full deque drops its oldest entry
DequeAppend(d, x) ==
    [ d EXCEPT !.items = IF d.bounded /\ Len(d.items) >= d.maxlen
                         THEN Tail(Append(d.items, x))
                         ELSE Append(d.items, x) ]

\* variant: only a model with fewer classes is refused
MismatchWhenFewer(model_classes, task_classes) == model_classes < task_classes

\* line 407: model.n_classes != self.n_classes
Mismatch(model_classes, task_classes) == model_classes # task_classes

\* lines 405-413: on_train_start(model, batches_per_epoch)
OnTrainStart ==
    /\ tpc = "constructed"
    /\ IF Mismatch(model_n_classes, n_classes)
       THEN /\ tpc' = "raised"
            /\ error' = "ValueError: n_classes mismatch"
            /\ UNCHANGED << loss_func_, log_y_pred_, log_y_true_ >>
       ELSE /\ loss_func_' = TRUE
            /\ \E given \in BOOLEAN :
                   \E maxlen \in IF given THEN 1..MaxLog ELSE {0} :
                       /\ log_y_pred_' = Deque(given, maxlen)
                       /\ log_y_true_' = Deque(given, maxlen)
            /\ tpc' = "training"
            /\ error' = error
    /\ UNCHANGED << generatorVars, tuneVars, applyVars, task_type, n_classes,
                    weight, model_n_classes,
                    batches, losses, scalars >>

\* lines 415-437: batch_loss(batch, model, device, writer); the batch is the
\* one numbered batches + 1. Without self.loss_func_, and without the logs
\* when they are needed, the attribute look-up raises AttributeError, and
\* so does None.to(device=device) at line 437
BatchLoss ==
    /\ tpc \in { "constructed", "training", "raised" }
    /\ error \in { "none", "ValueError: n_classes mismatch" }
    /\ batches < MaxTrainBatches
    /\ batches' = batches + 1
    /\ \E writer \in BOOLEAN :
           LET logs == task_type = "TASK_CLASSIFICATION" /\ writer
           IN  IF logs /\ ~ log_y_pred_.made
               THEN /\ tpc' = "raised"
                    /\ error' = "AttributeError"
                    /\ UNCHANGED << log_y_pred_, log_y_true_, losses >>
               ELSE /\ IF logs
                       THEN /\ log_y_pred_' = DequeAppend(log_y_pred_, batches + 1)
                            /\ log_y_true_' = DequeAppend(log_y_true_, batches + 1)
                       ELSE UNCHANGED << log_y_pred_, log_y_true_ >>
                    /\ IF ~ loss_func_ \/ weight = "None"
                       THEN /\ tpc' = "raised"
                            /\ error' = "AttributeError"
                            /\ losses' = losses
                       ELSE /\ losses' = losses + 1
                            /\ UNCHANGED << tpc, error >>
    /\ UNCHANGED << generatorVars, tuneVars, applyVars, task_type, n_classes,
                    weight, model_n_classes,
                    loss_func_, scalars >>

\* lines 439-460: on_epoch_end(iteration, checkpoint, writer); np.hstack
\* raises ValueError for an empty log
OnEpochEnd ==
    /\ tpc = "training"
    /\ scalars < MaxScalars
    /\ \E writer \in BOOLEAN :
           IF ~ writer \/ task_type # "TASK_CLASSIFICATION"
           THEN UNCHANGED << tpc, error, scalars >>
           ELSE IF log_y_pred_.items = << >>
                THEN /\ tpc' = "raised"
                     /\ error' = "ValueError: need at least one array"
                     /\ scalars' = scalars
                ELSE /\ scalars' = scalars + (IF n_classes < 3 THEN 1 ELSE n_classes)
                     /\ UNCHANGED << tpc, error >>
    /\ UNCHANGED << generatorVars, tuneVars, applyVars, task_type, n_classes,
                    weight, model_n_classes,
                    loss_func_, log_y_pred_, log_y_true_, batches, losses >>

\* the generator is not looked at
NoGenerator ==
    /\ protocol = << >>
    /\ duration = Duration
    /\ exhaustive = FALSE
    /\ shuffle = FALSE
    /\ batch_size = 1
    /\ per_epoch = [ num |-> 1, den |-> 1 ]
    /\ parallel = 0
    /\ cpc = "none"
    /\ Constructed

\* a task of a subclass that defines task_type and n_classes, and may
\* define weight, with the model it is to train
InitTask ==
    /\ NoGenerator
    /\ task_type \in TaskTypes
    /\ n_classes \in 1..MaxClasses
    /\ weight \in { "None", "tensor" }
    /\ model_n_classes \in 1..MaxClasses
    /\ TaskConstructed
    /\ NoApplication

NextTask ==
    \/ OnTrainStart
    \/ BatchLoss
    \/ OnEpochEnd

SpecTask == InitTask /\ [][NextTask]_vars

(***************************************************************************)
(* SpeechActivityDetection.tune()                                          *)
(***************************************************************************)
Epochs == 0..MaxEpoch

\* an optional argument: None, or << v >> for the value v
Optional(S) == { None } \cup { << v >> : v \in S }

\* the training directories: checkpoints of consecutive epochs, or none
TrainDirs == { a..b : a, b \in Epochs }

\* tune(start=..., end=..., at=...)
Requests ==
    { [ start |-> s, end |-> e, at |-> None ] : s, e \in Optional(Epochs) }
    \cup { [ start |-> s, end |-> None, at |-> a ] :
             s \in { None, << 0 >> }, a \in Optional(Epochs) \ { None } }

\* what Binarize.tune may come up with: a metric, with the thresholds that
\* reach it
TuneOutcomes ==
    { [ metric |-> 1, onset |-> 2, offset |-> 1 ],
      [ metric |-> 1, onset |-> 2, offset |-> 2 ],
      [ metric |-> 2, onset |-> 1, offset |-> 1 ] }

\* line 430: n_calls=20
n_calls == 20

\* the evaluations a search is followed for
Budget == IF n_calls < MaxCalls THEN n_calls ELSE MaxCalls

\* lines 364-365: the number of epochs (one more than the last epoch with
\* a checkpoint) and the first epoch with a checkpoint
get_number_of_epochs(checkpoints) ==
    IF checkpoints = {}
    THEN [ epoch |-> 0, first_epoch |-> None ]
    ELSE [ epoch |-> 1 + CHOOSE e \in checkpoints :
                           \A other \in checkpoints : other <= e,
           first_epoch |-> << CHOOSE e \in checkpoints :
                                \A other \in checkpoints : e <= other >> ]

\* lines 367-375: start, as tune() sets it
SearchStart(req, first_epoch) ==
    IF req.at = None
    THEN (IF req.start = None THEN first_epoch ELSE req.start)
    ELSE req.at

\* lines 367-375: end, as tune() sets it
SearchEnd(req, number_of_epochs) ==
    IF req.at = None
    THEN (IF req.end = None THEN number_of_epochs - 1 ELSE req.end[1])
    ELSE req.at[1]

\* line 377: the epochs of skopt.space.Integer(start, end)
Space(low, high) == IF low = None THEN {} ELSE low[1]..high

\* lines 352-383 and 428-431: tune() up to the first evaluation
\* gp_minimize asks for, that of x0 = [end]. skopt may refuse at once bounds
\* that leave no epoch or one epoch only, or accept them
TuneStart ==
    /\ upc = "tune"
    /\ tune_dir' = TRUE
    /\ LET numbers == get_number_of_epochs(weights)
           low == SearchStart(request, numbers.first_epoch)
           high == SearchEnd(request, numbers.epoch)
       IN  /\ epoch' = numbers.epoch
           /\ start' = low
           /\ end' = high
           /\ \/ /\ upc' = "objective"
                 /\ next_x' = << high >>
              \/ /\ Cardinality(Space(low, high)) <= 1
                 /\ upc' = "raised"
                 /\ next_x' = next_x
    /\ best_params' = << >>
    /\ best_metric' = << >>
    /\ UNCHANGED << generatorVars, taskVars, applyVars, weights, request, tuned,
                    next_y, res, calls, tune_yml >>

\* variant: nothing is remembered
MemoizedNever(params, metrics) == FALSE

\* line 415: params in best_metric
Memoized(params, metrics) == params \in DOMAIN metrics

\* how many times tune_binarizer was called for the epoch
Tuned(params) == IF params \in DOMAIN tuned THEN tuned[params] ELSE 0

\* lines 409-426, and 203-247 for tune_binarizer: the objective is
\* evaluated at next_x; load_model raises without a checkpoint of the
\* epoch
Objective ==
    /\ upc = "objective"
    /\ LET params == next_x[1]
       IN  IF Memoized(params, best_metric)
           THEN /\ next_y' = << best_metric[params] >>
                /\ upc' = "tell"
                /\ UNCHANGED << tuned, best_params, best_metric >>
           ELSE /\ tuned' = Store(tuned, params, Tuned(params) + 1)
                /\ IF params \notin weights
                   THEN /\ upc' = "raised"
                        /\ UNCHANGED << next_y, best_params, best_metric >>
                   ELSE \E outcome \in TuneOutcomes :
                            /\ best_params' =
                                   Store(best_params, params,
                                         [ onset |-> outcome.onset,
                                           offset |-> outcome.offset ])
                            /\ best_metric' =
                                   Store(best_metric, params, outcome.metric)
                            /\ next_y' = << outcome.metric >>
                            /\ upc' = "tell"
    /\ UNCHANGED << generatorVars, taskVars, applyVars, weights, request,
                    tune_dir, epoch, start, end, next_x, res, calls, tune_yml >>

\* res.x and res.fun once the point and its value are told: the first of
\* the points of least value
Told(result, point, value) ==
    IF result = None \/ value < result[1].fun
    THEN << [ x |-> point, fun |-> value ] >>
    ELSE result

\* lines 393-404: the state callback(res) saves
SavedState(result) ==
    [ status |-> [ epochs |-> epoch, start |-> start, end |-> end,
                   objective |-> result[1].fun ],
      epoch |-> result[1].x,
      onset |-> best_params[result[1].x].onset,
      offset |-> best_params[result[1].x].offset ]

\* lines 385-407: gp_minimize is told the value of the point and calls
\* callback(res), which writes tune.yml; after n_calls evaluations it
\* returns (line 435). skopt may refuse a point that is not in the space
Callback ==
    /\ upc = "tell"
    /\ \/ /\ res' = Told(res, next_x[1], next_y[1])
          /\ tune_yml' = << SavedState(Told(res, next_x[1], next_y[1])) >>
          /\ calls' = calls + 1
          /\ upc' = IF calls + 1 >= Budget THEN "done" ELSE "ask"
       \/ /\ next_x[1] \notin Space(start, end)
          /\ upc' = "raised"
          /\ UNCHANGED << res, tune_yml, calls >>
    /\ UNCHANGED << generatorVars, taskVars, applyVars, weights, request,
                    tune_dir, epoch, start, end, best_params, best_metric,
                    tuned, next_x, next_y >>

\* lines 428-431: gp_minimize picks the next point, in the space; it has
\* none to pick in an empty space
Ask ==
    /\ upc = "ask"
    /\ IF Space(start, end) = {}
       THEN /\ upc' = "raised"
            /\ next_x' = next_x
       ELSE /\ \E point \in Space(start, end) : next_x' = << point >>
            /\ upc' = "objective"
    /\ next_y' = None
    /\ UNCHANGED << generatorVars, taskVars, applyVars, weights, request,
                    tune_dir, epoch, start, end, best_params, best_metric,
                    tuned, res, calls, tune_yml >>

\* nothing of apply() is looked at
NoApply ==
    /\ items = << >>
    /\ apc = "none"

InitTune ==
    /\ NoGenerator
    /\ NoTask
    /\ NoApply
    /\ weights \in TrainDirs
    /\ request \in Requests
    /\ upc = "tune"
    /\ tune_yml = None
    /\ ApplicationConstructed

NextTune ==
    \/ TuneStart
    \/ Objective
    \/ Callback
    \/ Ask

SpecTune == InitTune /\ [][NextTune]_vars

(***************************************************************************)
(* Binarize                                                                *)
(***************************************************************************)
\* variant: an active region goes on only while the score reaches onset
StaysActiveOnset(score, onset, offset) == score >= onset

\* an active region goes on until a frame whose score is below offset
StaysActive(score, onset, offset) == score >= offset

\* a region becomes active at a frame whose score reaches onset
BecomesActive(score, onset, offset) == score >= onset

\* which frames are active, was telling if the frame before the first is
RECURSIVE Active(_, _, _, _)
Active(scores, onset, offset, was) ==
    IF scores = << >> THEN << >>
    ELSE LET now == IF was THEN StaysActive(Head(scores), onset, offset)
                    ELSE BecomesActive(Head(scores), onset, offset)
         IN  << now >> \o Active(Tail(scores), onset, offset, now)

\* the runs of active frames, << first, last + 1 >> each
Runs(active) ==
    SortSegs({ << a, b + 1 >> : a \in DOMAIN active, b \in DOMAIN active } \cap
             { run \in (DOMAIN active) \X (2..(Len(active) + 1)) :
                 /\ run[1] < run[2]
                 /\ \A t \in run[1]..(run[2] - 1) : active[t]
                 /\ run[1] = 1 \/ ~ active[run[1] - 1]
                 /\ run[2] = Len(active) + 1 \/ ~ active[run[2]] })

\* Binarize(onset=onset, offset=offset).apply(predictions, dimension=1)
Binarize(scores, onset, offset) == Runs(Active(scores, onset, offset, FALSE))

(***************************************************************************)
(* SpeechActivityDetection.apply()                                         *)
(***************************************************************************)
Scores == 0..MaxScore

\* what sequence_labeling.apply may give for a file: a score per frame
Predictions == UNION { [ 1..m -> Scores ] : m \in 1..MaxFrames }

\* the predictions of the files of a subset of several files
ScoreChoices == { << 0 >>, << MaxScore, 1, MaxScore >> }

\* the subsets apply() runs on: a few files, or one file with whatever
\* prediction; the uri of a file is its position
ApplySubsets ==
    UNION { { [ j \in 1..m |-> [ uri |-> j, scores |-> f[j] ] ] :
                f \in [ 1..m -> ScoreChoices ] } : m \in 0..MaxApplyFiles }
    \cup { << [ uri |-> 1, scores |-> p ] >> : p \in Predictions }

\* the tune.yml files apply() may find, written by tune() for epoch 0
ApplyTunings ==
    { << [ status |-> [ epochs |-> 1, start |-> << 0 >>, end |-> 0,
                        objective |-> 1 ],
           epoch |-> 0, onset |-> onset, offset |-> offset ] >> :
        onset \in 1..MaxScore, offset \in 1..MaxScore }

\* lines 437-461: apply() up to its first loop; io.open raises without
\* tune.yml, load_model without the checkpoint of the epoch
ApplyStart ==
    /\ apc \in { "apply", "done" }
    /\ runs < MaxRuns
    /\ runs' = runs + 1
    /\ config_writes' = 0
    /\ IF tune_yml = None
       THEN /\ apc' = "raised"
            /\ UNCHANGED << tune_, item >>
       ELSE /\ tune_' = tune_yml
            /\ IF tune_yml[1].epoch \in weights
               THEN /\ apc' = "predict"
                    /\ item' = 1
               ELSE /\ apc' = "raised"
                    /\ item' = item
    /\ UNCHANGED << generatorVars, taskVars, tuneVars, items, config, store,
                    mdtm >>

\* lines 471-476: the attributes of the metadata file
Metadata == << [ dimension |-> 2 ] >>

\* variant: every file counts as the first
FirstItemAlways(index) == TRUE

\* line 467: i == 0, the file is the first of the subset
FirstItem(index) == index = 1

\* lines 463-489: one iteration of the first loop. h5py.File(path) opens
\* the file of the uri, or creates it; create_dataset raises when the file
\* has a 'features' dataset already
Predict ==
    /\ apc = "predict"
    /\ item <= Len(items)
    /\ config' = IF FirstItem(item) THEN Metadata ELSE config
    /\ config_writes' = IF FirstItem(item) THEN config_writes + 1
                        ELSE config_writes
    /\ IF items[item].uri \in DOMAIN store
       THEN /\ apc' = "raised"
            /\ UNCHANGED << store, item >>
       ELSE /\ store' = Store(store, items[item].uri, items[item].scores)
            /\ item' = item + 1
            /\ apc' = apc
    /\ UNCHANGED << generatorVars, taskVars, tuneVars, items, tune_, mdtm,
                    runs >>

\* lines 491-502: the first loop is over; Precomputed(root_dir=apply_dir)
\* may raise without a metadata file; io.open(path, mode='w') empties the
\* MDTM file
OpenMDTM ==
    /\ apc = "predict"
    /\ item > Len(items)
    /\ \/ /\ mdtm' = << >>
          /\ item' = 1
          /\ apc' = "binarize"
       \/ /\ config = None
          /\ apc' = "raised"
          /\ UNCHANGED << mdtm, item >>
    /\ UNCHANGED << generatorVars, taskVars, tuneVars, items, tune_, config,
                    config_writes, store, runs >>

\* variant: onset and offset take the value of each other
ThresholdsSwapped(tuning) ==
    [ onset |-> tuning.offset, offset |-> tuning.onset ]

\* lines 492-494: Binarize(onset=self.tune_['onset'], offset=self.tune_['offset'])
Thresholds(tuning) == [ onset |-> tuning.onset, offset |-> tuning.offset ]

\* lines 503-507: one iteration of the second loop
WriteSegmentation ==
    /\ apc = "binarize"
    /\ item <= Len(items)
    /\ LET predictions == store[items[item].uri]
           binarize == Thresholds(tune_[1])
           segmentation == Binarize(predictions, binarize.onset, binarize.offset)
       IN  mdtm' = Append(mdtm, [ uri |-> items[item].uri,
                                  modality |-> "speaker",
                                  segments |-> segmentation ])
    /\ item' = item + 1
    /\ UNCHANGED << generatorVars, taskVars, tuneVars, items, apc, tune_,
                    config, config_writes, store, runs >>

\* line 503: the second loop is over, apply() returns
ApplyEnd ==
    /\ apc = "binarize"
    /\ item > Len(items)
    /\ apc' = "done"
    /\ UNCHANGED << generatorVars, taskVars, tuneVars, items, item, tune_,
                    config, config_writes, store, mdtm, runs >>

InitApply ==
    /\ NoGenerator
    /\ NoTask
    /\ weights = { 0 }
    /\ request = [ start |-> None, end |-> None, at |-> None ]
    /\ upc = "none"
    /\ tune_yml \in ApplyTunings
    /\ items \in ApplySubsets
    /\ apc = "apply"
    /\ ApplicationConstructed

NextApply ==
    \/ ApplyStart
    \/ Predict
    \/ OpenMDTM
    \/ WriteSegmentation
    \/ ApplyEnd

SpecApply == InitApply /\ [][NextApply]_vars

(***************************************************************************)
(* Properties of __call__() and of batches_per_epoch                       *)
(***************************************************************************)
\* C1: with N >= 1 generators and B batches per epoch, the k-th batch
\* yielded (k = 0, 1, ...) comes from generator (k div B) mod N, whatever the
\* pace at which the generators fill their queues.
C1_RoundRobin ==
    cpc = "serving" =>
        /\ batches_per_epoch >= 1
        /\ parallel >= 1 => Len(generators) = parallel
        /\ \A n \in DOMAIN yielded :
               yielded[n] = (((n - 1) \div batches_per_epoch) % Len(generators)) + 1

\* two generators have each served an epoch of two batches and the first one
\* is served again, the queue of the second one being full meanwhile
C1_Witness ==
    /\ cpc = "serving"
    /\ parallel = 2
    /\ batches_per_epoch = 2
    /\ Len(yielded) > 2 * parallel * batches_per_epoch
    /\ queues[2] = batches_per_epoch

\* duration_per_epoch and duration_per_batch, over the common denominator
EpochSeconds == per_epoch.num * SecondsPerDay
BatchSeconds == per_epoch.den * duration * batch_size

\* C9: batches_per_epoch is the ceiling of duration_per_epoch over
\* duration_per_batch, the least whole number of batches that covers the
\* epoch, and is at least 1.
C9_BatchesPerEpochIsCeiling ==
    cpc = "read" =>
        /\ batches_per_epoch * BatchSeconds >= EpochSeconds
        /\ (batches_per_epoch - 1) * BatchSeconds < EpochSeconds
        /\ batches_per_epoch >= 1

\* an epoch that is no whole number of batches, and takes more than one
C9_Witness ==
    /\ cpc = "read"
    /\ batches_per_epoch > 1
    /\ batches_per_epoch * BatchSeconds > EpochSeconds

FracLeq(a, b) == a.num * b.den <= b.num * a.den

\* C10: for the window duration at hand, batches_per_epoch does not grow
\* with batch_size and does not shrink with per_epoch.
C10_BatchesPerEpochMonotone ==
    cpc = "read" =>
        /\ \A size \in BatchSizes :
               size >= batch_size =>
                   BatchesPerEpoch(per_epoch, duration, size) <= batches_per_epoch
        /\ \A pe \in Seconds \cup Days :
               FracLeq(per_epoch, pe) =>
                   BatchesPerEpoch(pe, duration, batch_size) >= batches_per_epoch

\* a larger batch size gives fewer batches and a longer epoch gives more
C10_Witness ==
    /\ cpc = "read"
    /\ \E size \in BatchSizes :
           /\ size > batch_size
           /\ BatchesPerEpoch(per_epoch, duration, size) < batches_per_epoch
    /\ \E pe \in Seconds \cup Days :
           /\ FracLeq(per_epoch, pe)
           /\ BatchesPerEpoch(pe, duration, batch_size) > batches_per_epoch

(***************************************************************************)
(* Properties of initialize()                                              *)
(***************************************************************************)
Max(a, b) == IF a > b THEN a ELSE b
Min(a, b) == IF a < b THEN a ELSE b

\* the regions of a file, cut to [0, audio duration), that are strictly
\* longer than the window
Eligible(file) ==
    { t \in { << Max(Start(s), 0), Min(End(s), file.audio) >> :
                s \in Range(file.annotated) } :
        End(t) - Start(t) > duration }

RECURSIVE TotalDuration(_)
TotalDuration(S) ==
    IF S = {} THEN 0
    ELSE LET s == CHOOSE x \in S : TRUE
         IN  (End(s) - Start(s)) + TotalDuration(S \ {s})

FirstLoopOver == pc \in { "loop2", "initialized", "KeyError" }

\* C2: initialize() raises no error when a file of the subset has no
\* annotated segment longer than the window; the file is left out of data_
\* and indexing goes on.
C2_ShortFileIsTolerated ==
    (\E u \in DOMAIN protocol : Eligible(protocol[u]) = {}) => pc # "KeyError"

\* C3: once the files are indexed, data_ has an entry for a file exactly when
\* the file has a region, cut to the audio duration, strictly longer than the
\* window; the entry lists exactly those regions and its duration is the sum
\* of theirs.
C3_IndexHoldsEligibleFiles ==
    FirstLoopOver =>
        \A u \in DOMAIN protocol :
            /\ u \in DOMAIN data_ <=> Eligible(protocol[u]) # {}
            /\ u \in DOMAIN data_ =>
                 /\ Range(data_[u].segments) = Eligible(protocol[u])
                 /\ Len(data_[u].segments) = Cardinality(Eligible(protocol[u]))
                 /\ data_[u].duration = TotalDuration(Eligible(protocol[u]))

\* initialize() has returned with a file indexed for one of its two regions
\* only, and a file indexed for a region cut to the audio duration
C3_Witness ==
    /\ pc = "initialized"
    /\ \E u \in DOMAIN data_ : Len(data_[u].segments) < Len(protocol[u].annotated)
    /\ \E u \in DOMAIN data_ :
           \E s \in Range(data_[u].segments) : s \notin Range(protocol[u].annotated)

(***************************************************************************)
(* Properties of random_samples()                                          *)
(***************************************************************************)
RandomYielded == ~exhaustive /\ sample # NoSample

\* C4: a sample of random mode comes from a file of data_ (of positive
\* duration), from one of the long regions of that file, and its window has
\* exactly the window duration and lies inside that region.
C4_RandomSampleInsideSegment ==
    RandomYielded =>
        /\ sample.uri \in DOMAIN data_
        /\ data_[sample.uri].duration > 0
        /\ sample.segment \in Eligible(protocol[sample.uri])
        /\ End(sample.sequence) - Start(sample.sequence) = duration
        /\ Start(sample.segment) <= Start(sample.sequence)
        /\ End(sample.sequence) <= End(sample.segment)

\* a window drawn in the second of two indexed files, not at the start of
\* its region
C4_Witness ==
    /\ RandomYielded
    /\ Cardinality(DOMAIN data_) = 2
    /\ sample.uri = 2
    /\ Start(sample.sequence) > Start(sample.segment)

WeightsComputed == ~exhaustive /\ gpc \in { "random_loop", "ValueError" }

RECURSIVE DurationOf(_)
DurationOf(U) ==
    IF U = {} THEN 0
    ELSE LET u == CHOOSE x \in U : TRUE
         IN  data_[u].duration + DurationOf(U \ {u})

IndexedTotal == DurationOf(DOMAIN data_)

WeightsAreShares ==
    /\ Len(probabilities) = Len(uris)
    /\ \A j \in DOMAIN probabilities :
           /\ probabilities[j].num * IndexedTotal
                = data_[uris[j]].duration * probabilities[j].den
           /\ probabilities[j].num >= 0
           /\ probabilities[j].den > 0

WeightsSumToOne == FracSum(probabilities) = [ num |-> 1, den |-> 1 ]

\* C5 as stated: in random mode the weight of every indexed file is its
\* duration over the sum of the durations of the indexed files, and the
\* weights are non-negative and sum to 1.
C5_WeightsSumToOne_Original ==
    WeightsComputed => WeightsAreShares /\ WeightsSumToOne

\* C5 as amended: the weights are those shares and are non-negative; they
\* sum to 1 whenever at least one file is indexed (with no file indexed
\* there is no weight and the sum is 0).
C5_WeightsAreShares ==
    WeightsComputed =>
        /\ WeightsAreShares
        /\ DOMAIN data_ # {} => WeightsSumToOne
        /\ DOMAIN data_ = {} => probabilities = << >>

\* two files indexed with different durations
C5_Witness ==
    /\ WeightsComputed
    /\ Len(uris) = 2
    /\ probabilities[1] # probabilities[2]

\* the next request of a sample can be answered with a sample
CanDraw ==
    /\ ~ChoiceRaises(Len(uris), probabilities)
    /\ Choice(Len(uris), probabilities) # {}
    /\ \A j \in Choice(Len(uris), probabilities) :
           /\ random_segment(data_[uris[j]].segments) # {}
           /\ \A segment \in random_segment(data_[uris[j]].segments) :
                  Subsegment(segment) # {}

\* C6 as stated: after initialize() the random sampler answers every request
\* with a sample: it never raises and never ends.
C6_RandomNeverRaises_Original ==
    ~exhaustive =>
        /\ gpc # "ValueError"
        /\ gpc = "random_loop" => CanDraw

\* C6 as amended: the same, provided the subset holds at least one file (over
\* an empty subset the first request raises ValueError).
C6_RandomNeverRaises ==
    /\ (~exhaustive /\ Len(protocol) > 0) =>
          /\ gpc # "ValueError"
          /\ gpc = "random_loop" => CanDraw
    /\ (~exhaustive /\ Len(protocol) = 0 /\ gpc = "random_loop") => ~CanDraw

\* a sample has been handed out and the sampler is ready for the next request
C6_Witness ==
    /\ RandomYielded
    /\ gpc = "random_loop"
    /\ Len(protocol) = 2
    /\ CanDraw

\* lines 194-196 or 224-226 have run: the weights are computed
DurationsSummed ==
    gpc \in { "random_loop", "ValueError", "sliding_loop", "sliding_file",
              "sliding_yield" }

Abs(x) == IF x < 0 THEN -x ELSE x

\* n is the number of frames nearest to the window duration
IsDurationInFrames(n) == 2 * Abs(n * FrameStep - duration) <= FrameStep

\* C7: in both modes X and y of a sample are cropped with the same window,
\* the same 'center' mode and the same fixed duration, so they have the same
\* number of frames, the window duration converted to frames.
C7_SameFramesForXAndY ==
    sample # NoSample =>
        /\ sample.X.crop = sample.y.crop
        /\ sample.X.crop.focus = sample.sequence
        /\ sample.X.crop.mode = "center"
        /\ sample.X.crop.fixed = duration
        /\ sample.X.frames = sample.y.frames
        /\ IsDurationInFrames(sample.X.frames)

\* a sample of exhaustive mode whose window starts off the grid of windows
C7_Witness ==
    /\ exhaustive
    /\ sample # NoSample
    /\ Start(sample.sequence) % duration # 0

(***************************************************************************)
(* Properties of sliding_samples()                                         *)
(***************************************************************************)
PassOver == gpc = "sliding_file" /\ k > Len(uris)
FileOver == gpc = "sliding_yield" /\ pending = << >>
ServingFile == gpc = "sliding_yield"

NoDuplicates(q) == \A a, b \in DOMAIN q : a # b => q[a] # q[b]

Overlap(s, t) == Start(s) < End(t) /\ Start(t) < End(s)

\* the indexed regions of the file being served
Regions == get_annotated(data_[uris[k]].current_file)

\* a pass visits every file of data_ once, and the windows of a file have the
\* window duration, lie inside a region of the file, do not overlap and are
\* laid end to end from the shifted start of their region
PassVisitsAndSlides ==
    /\ exhaustive => NoDuplicates(visited) /\ Range(visited) \subseteq DOMAIN data_
    /\ PassOver => Range(visited) = DOMAIN data_
    /\ ServingFile =>
         /\ NoDuplicates(emitted)
         /\ \A a, b \in DOMAIN emitted : a # b => ~Overlap(emitted[a], emitted[b])
         /\ \A a \in DOMAIN emitted :
              /\ End(emitted[a]) - Start(emitted[a]) = duration
              /\ \E r \in Range(annotated) :
                   /\ Contains(r, emitted[a])
                   /\ (Start(emitted[a]) - Start(r)) % duration = 0
                   /\ \E o \in Range(Regions) :
                        /\ End(o) = End(r)
                        /\ Start(r) - Start(o) \in 0..(duration - 1)
    /\ FileOver =>
         \A r \in Range(annotated) :
             \A n \in 0..Horizon :
                 Start(r) + (n + 1) * duration <= End(r) =>
                     \E a \in DOMAIN emitted :
                         emitted[a] = << Start(r) + n * duration,
                                         Start(r) + (n + 1) * duration >>

\* the subset is one file with one annotated region of three windows
OneRegionOfThreeWindows ==
    /\ Len(protocol) = 1
    /\ DOMAIN data_ = {1}
    /\ get_annotated(data_[1].current_file) = << << 0, 3 * duration >> >>

Covered(region, windows) ==
    \A t \in Start(region)..(End(region) - 1) :
        \E a \in DOMAIN windows : Start(windows[a]) <= t /\ t < End(windows[a])

\* C8 as stated: a pass visits every file of data_ once and slides
\* non-overlapping windows over the file; over one file with one region of
\* three window durations (6 s, 2 s) the pass yields exactly 3 windows that
\* cover the whole file.
C8_ThreeWindows_Original ==
    /\ PassVisitsAndSlides
    /\ (OneRegionOfThreeWindows /\ FileOver) =>
          /\ Len(emitted) = 3
          /\ Covered(<< 0, 3 * duration >>, emitted)

\* C8 as amended: the same pass, but over that file it yields exactly 3
\* windows covering the file only when the random shift of the region is 0;
\* with any other shift it yields exactly 2 windows, which start at the
\* shifted start and leave part of the region uncovered.
C8_ExhaustivePass ==
    /\ PassVisitsAndSlides
    /\ (OneRegionOfThreeWindows /\ FileOver) =>
          IF annotated = << << 0, 3 * duration >> >>
          THEN Len(emitted) = 3 /\ Covered(<< 0, 3 * duration >>, emitted)
          ELSE /\ Len(emitted) = 2
               /\ ~Covered(<< 0, 3 * duration >>, emitted)
               /\ Start(annotated[1]) \in 1..(duration - 1)

\* the file of one region has been served with a shift other than 0
C8_Witness ==
    /\ OneRegionOfThreeWindows
    /\ FileOver
    /\ Len(emitted) = 2

\* how many times w is in q
Count(q, w) == Cardinality({ j \in DOMAIN q : q[j] = w })

SameMultiset(a, b) ==
    /\ Len(a) = Len(b)
    /\ \A w \in Range(a) \cup Range(b) : Count(a, w) = Count(b, w)

\* C24: in exhaustive mode, the windows of the file being served that were
\* yielded and those still to come are together the windows cut out of
\* its shifted timeline: in the same order without shuffle, the same
\* multiset with shuffle, laid out in full before the first is yielded; a
\* sample is a window of the file being served, and the sampler goes on to
\* the next file only when no window of the file is left, every file being
\* visited once in a pass
C24_ShuffledWindowsArePermutation ==
    /\ [](ServingFile =>
            /\ SameMultiset(emitted \o pending, from_file(annotated))
            /\ ~ shuffle => emitted \o pending = from_file(annotated)
            /\ FileOver => SameMultiset(emitted, from_file(annotated))
            /\ sample # NoSample =>
                   /\ sample.uri = uris[k]
                   /\ sample.sequence = emitted[Len(emitted)]
            /\ NoDuplicates(visited)
            /\ visited[Len(visited)] = uris[k])
    /\ [][ (gpc = "sliding_yield" /\ k' # k) => pending = << >> ]_vars
    /\ [][ (gpc = "sliding_yield" /\ gpc' = "sliding_yield") =>
             /\ k' = k
             /\ visited' = visited
             /\ annotated' = annotated
             /\ emitted' = Append(emitted, Head(pending))
             /\ pending' = Tail(pending) ]_vars

\* the second file of a pass has been served with shuffle, its windows in
\* another order than the one they are cut in
C24_Witness ==
    /\ shuffle
    /\ FileOver
    /\ Len(visited) = 2
    /\ Len(emitted) >= 2
    /\ emitted # from_file(annotated)
    /\ SameMultiset(emitted, from_file(annotated))

\* the generator rests at a yield, a sample handed out
SampleYielded == gpc = "sliding_yield" /\ sample # NoSample

\* C23: in exhaustive mode, from every state after initialize() has
\* returned, the generator comes to rest at a yield with a sample: the
\* sampler does not end and does not go through passes without a window
\* for ever
C23_SlidingMakesProgress ==
    (pc = "initialized" /\ exhaustive) ~> SampleYielded

\* the same, over a subset that holds a file
SlidingProgressOverFiles ==
    (pc = "initialized" /\ exhaustive /\ Len(protocol) > 0) ~> SampleYielded

\* a file is passed over without a window: its shift left no room for one
PassedOverWithoutWindow ==
    /\ gpc = "sliding_yield"
    /\ pending = << >>
    /\ emitted = << >>
    /\ Len(protocol) > 0

(***************************************************************************)
(* Properties of the prefetching producers of __call__()                   *)
(***************************************************************************)
\* the producer of generator j is alive: its sampler has samples to give
ProducerAlive(j) == generators[j].prefetch > 0 /\ SamplerYields

\* C11: with parallel = N >= 1 there are N queues, one per producer, none of
\* which ever holds more than batches_per_epoch batches; a live producer can
\* go on exactly when its own queue is not full, and the consumer can take
\* its next batch exactly when the queue of the generator being served is
\* not empty
C11_BoundedPrefetchQueues ==
    (cpc = "serving" /\ parallel >= 1) =>
        /\ Len(generators) = parallel
        /\ Len(queues) = parallel
        /\ \A j \in DOMAIN queues :
               /\ queues[j] >= 0
               /\ queues[j] <= batches_per_epoch
               /\ ProducerAlive(j) =>
                      ((ENABLED Produce(j)) <=> queues[j] < batches_per_epoch)
        /\ Len(yielded) < MaxBatches =>
               ((ENABLED Serve) <=> queues[current] > 0)

\* two producers, the first blocked on its full queue while the consumer
\* waits on the empty queue of the second, which it is serving
C11_Witness ==
    /\ cpc = "serving"
    /\ parallel = 2
    /\ SamplerYields
    /\ queues[1] = batches_per_epoch
    /\ ~ ENABLED Produce(1)
    /\ current = 2
    /\ queues[2] = 0
    /\ Len(yielded) < MaxBatches
    /\ ~ ENABLED Serve

\* C21: with parallel = 0 there is one generator, without prefetching: it
\* never holds a batch ready and every batch yielded comes from it; with
\* parallel = N >= 1 there are N generators, each with a queue of its own
\* of capacity batches_per_epoch, and a step that fills a queue leaves the
\* other queues alone
C21_GeneratorsOfParallel ==
    /\ [](cpc = "serving" =>
            IF parallel = 0
            THEN /\ Len(generators) = 1
                 /\ generators[1].prefetch = 0
                 /\ queues = << 0 >>
                 /\ ~ ENABLED Produce(1)
                 /\ \A n \in DOMAIN yielded : yielded[n] = 1
            ELSE /\ Len(generators) = parallel
                 /\ Len(queues) = parallel
                 /\ \A j \in DOMAIN generators :
                        generators[j].prefetch = batches_per_epoch)
    /\ [][ cpc = "serving" =>
             /\ generators' = generators
             /\ \A j \in DOMAIN queues :
                    queues'[j] > queues[j] =>
                        \A other \in DOMAIN queues \ { j } :
                            queues'[other] = queues[other] ]_vars

\* the only generator of parallel = 0 has served more than an epoch
C21_Witness ==
    /\ cpc = "serving"
    /\ parallel = 0
    /\ batches_per_epoch >= 2
    /\ Len(yielded) > batches_per_epoch
    /\ current = 1

(***************************************************************************)
(* Properties of the index once initialize() has returned                  *)
(***************************************************************************)
\* how far initialize() has come: the loop it runs, and the file it is at
Stage == CASE pc = "loop1" -> 1 [] pc = "loop2" -> 2 [] OTHER -> 3

\* generators exist, or batches have been produced or served
SamplingBegun ==
    \/ cpc \in { "generators", "serving" }
    \/ generators # << >>
    \/ \E j \in DOMAIN queues : queues[j] > 0
    \/ yielded # << >>

\* C12: in __call__(), whatever parallel is, initialize() has returned
\* before a generator is created or a batch produced; it runs once (it never
\* goes back to a loop or a file it has left) and once it has returned
\* nothing of the index changes while batches are served
C12_InitializeOnceBeforeSampling ==
    /\ [](SamplingBegun => pc = "initialized")
    /\ [][ \/ Stage' > Stage
           \/ Stage' = Stage /\ i' >= i ]_vars
    /\ [][ pc = "initialized" => UNCHANGED indexVars ]_vars

\* batches are served from a non-empty index
C12_Witness ==
    /\ cpc = "serving"
    /\ pc = "initialized"
    /\ data_ # << >>
    /\ \A u \in DOMAIN data_ : data_[u].y.computed
    /\ Len(yielded) > 1

\* C13: once initialize() has returned no step of the samplers or of
\* __call__() changes data_, labels_ or databases_; in exhaustive mode the
\* shifted timeline of the file being served has every region of the index
\* (as cropped by initialize()) start later by a shift in [0, duration),
\* in every pass
C13_IndexIsReadOnly ==
    /\ [][ pc = "initialized" =>
             UNCHANGED << data_, labels_, databases_ >> ]_vars
    /\ [](gpc = "sliding_yield" =>
            /\ data_[uris[k]].current_file.annotated
                   = CroppedAnnotated(protocol[uris[k]])
            /\ \A region \in Range(annotated) :
                   \E r \in Range(CroppedAnnotated(protocol[uris[k]])) :
                       \E shift \in 0..(duration - 1) :
                           region = << Start(r) + shift, End(r) >>)

\* a file is served with a region shifted, the index still holding the
\* region as initialize() cropped it, and the labels and databases it met
C13_Witness ==
    /\ gpc = "sliding_yield"
    /\ emitted # << >>
    /\ annotated # data_[uris[k]].current_file.annotated
    /\ data_[uris[k]].current_file.annotated
           = CroppedAnnotated(protocol[uris[k]])
    /\ Len(databases_) = 2
    /\ labels_ # << >>

\* C14: whatever initialize() builds for a file, its segments and its y, is
\* built from the 'annotated' timeline cropped to the duration of the audio
C14_CroppedTimelinesOnly ==
    \A u \in DOMAIN data_ :
        /\ data_[u].current_file.annotated = CroppedAnnotated(protocol[u])
        /\ data_[u].segments = LongSegments(CroppedAnnotated(protocol[u]))
        /\ data_[u].y.computed =>
               data_[u].y.support = CroppedAnnotated(protocol[u])

(***************************************************************************)
(* Properties of LabelingTask                                              *)
(***************************************************************************)
\* C15: on_train_start raises ValueError exactly when the model and the
\* task differ in n_classes; for such a pair the loss function and the
\* logs are never set up and no batch ever gets its loss
C15_MismatchRaisesBeforeAnyBatch ==
    /\ [][ tpc = "constructed" /\ batches' = batches /\ tpc' # tpc =>
             IF model_n_classes # n_classes
             THEN /\ tpc' = "raised"
                  /\ error' = "ValueError: n_classes mismatch"
             ELSE /\ tpc' = "training"
                  /\ error' = "none" ]_vars
    /\ [](model_n_classes # n_classes =>
            /\ tpc # "training"
            /\ ~ loss_func_
            /\ ~ log_y_pred_.made
            /\ ~ log_y_true_.made
            /\ losses = 0)

\* on_train_start has refused a model with another number of classes
C15_Witness ==
    /\ error = "ValueError: n_classes mismatch"
    /\ model_n_classes # n_classes
    /\ batches = 0

\* C25: for a task whose weight is None, of whatever type, every batch
\* handed to batch_loss once on_train_start has returned gets its loss:
\* batch_loss does not raise
C25_LossWithoutWeight ==
    (weight = "None" /\ loss_func_) =>
        /\ error = "none"
        /\ tpc = "training"
        /\ losses = batches

\* the last entries of q, at most n of them
LastOf(q, n) ==
    IF Len(q) <= n THEN q ELSE SubSeq(q, Len(q) - n + 1, Len(q))

\* C26: once on_train_start has made them, the two logs hold the same
\* batches, no more than batches_per_epoch of them when it is given, in
\* the order they came; a call of batch_loss leaves them alone or, for a
\* classification task only, puts its batch at the end of both, which then
\* hold the most recent batches logged; no other call changes them
C26_LogsHoldMostRecentBatches ==
    /\ [](log_y_pred_.made =>
            /\ log_y_true_ = log_y_pred_
            /\ log_y_pred_.bounded => Len(log_y_pred_.items) <= log_y_pred_.maxlen
            /\ \A a \in DOMAIN log_y_pred_.items :
                   /\ log_y_pred_.items[a] \in 1..batches
                   /\ \A b \in DOMAIN log_y_pred_.items :
                          a < b => log_y_pred_.items[a] < log_y_pred_.items[b]
            /\ task_type # "TASK_CLASSIFICATION" => log_y_pred_.items = << >>)
    /\ [][ (log_y_pred_.made /\ batches' = batches + 1) =>
             \/ UNCHANGED << log_y_pred_, log_y_true_ >>
             \/ /\ task_type = "TASK_CLASSIFICATION"
                /\ log_y_pred_'.items =
                       IF log_y_pred_.bounded
                       THEN LastOf(Append(log_y_pred_.items, batches + 1),
                                   log_y_pred_.maxlen)
                       ELSE Append(log_y_pred_.items, batches + 1)
                /\ log_y_true_' = log_y_pred_' ]_vars
    /\ [][ (log_y_pred_.made /\ batches' = batches) =>
             UNCHANGED << log_y_pred_, log_y_true_ >> ]_vars

\* the logs are full with the last two of three batches, and were read by
\* on_epoch_end
C26_Witness ==
    /\ tpc = "training"
    /\ log_y_pred_.bounded
    /\ log_y_pred_.maxlen = 2
    /\ batches = 3
    /\ log_y_pred_.items = << 2, 3 >>
    /\ log_y_true_.items = << 2, 3 >>
    /\ scalars > 0

(***************************************************************************)
(* Properties of tune()                                                    *)
(***************************************************************************)
\* C16: in a call of tune(), tune_binarizer is called at most once for an
\* epoch; what the objective returns for an epoch is the metric remembered
\* for it, which never changes, and an epoch tried before is answered
\* without a call of tune_binarizer
C16_TunedOncePerEpoch ==
    /\ [](\A e \in DOMAIN tuned : tuned[e] <= 1)
    /\ [](upc = "tell" =>
            /\ next_x[1] \in DOMAIN best_metric
            /\ next_y = << best_metric[next_x[1]] >>)
    /\ [][ \A e \in DOMAIN best_metric :
               /\ e \in DOMAIN best_metric'
               /\ best_metric'[e] = best_metric[e]
               /\ best_params'[e] = best_params[e] ]_vars
    /\ [][ upc = "objective" /\ next_x[1] \in DOMAIN best_metric =>
               /\ tuned' = tuned
               /\ next_y' = << best_metric[next_x[1]] >> ]_vars

\* the objective has answered for an epoch it had been asked about before
C16_Witness ==
    /\ upc = "tell"
    /\ calls >= 1
    /\ Cardinality(DOMAIN best_metric) <= calls
    /\ tuned[next_x[1]] = 1

\* C17: whenever tune.yml is there and no value waits to be told, its
\* epoch has been evaluated, its thresholds and its objective are the ones
\* remembered for that epoch, no evaluated epoch has a lower metric, and
\* its start and end are those of the search, with start <= epoch <= end
C17_SavedStateIsConsistent ==
    (tune_yml # None /\ upc # "tell") =>
        LET saved == tune_yml[1]
        IN  /\ saved.epoch \in DOMAIN best_metric
            /\ saved.onset = best_params[saved.epoch].onset
            /\ saved.offset = best_params[saved.epoch].offset
            /\ saved.status.objective = best_metric[saved.epoch]
            /\ \A e \in DOMAIN best_metric :
                   saved.status.objective <= best_metric[e]
            /\ saved.status.start = start
            /\ saved.status.end = end
            /\ start # None
            /\ start[1] <= saved.epoch
            /\ saved.epoch <= end

\* C20: when train_dir has no checkpoint of an epoch from start to end,
\* tune() evaluates no epoch and writes no tune.yml
C20_NoCheckpointNoEvaluation ==
    (upc # "tune" /\ Space(start, end) \cap weights = {}) =>
        /\ best_metric = << >>
        /\ tune_yml = None
        /\ upc \in { "objective", "raised" }

\* the first and the last epoch train_dir holds a checkpoint of
FirstAvailable == CHOOSE e \in weights : \A other \in weights : e <= other
LastAvailable == CHOOSE e \in weights : \A other \in weights : other <= e

\* start and end are those of 'at' when it is given, and else the ones
\* given or, by default, the first and the last available epoch
SearchBoundsAsDocumented ==
    upc # "tune" =>
        IF request.at # None
        THEN start = request.at /\ end = request.at[1]
        ELSE /\ request.start # None => start = request.start
             /\ request.end # None => end = request.end[1]
             /\ (request.start = None /\ weights # {}) =>
                    start = << FirstAvailable >>
             /\ (request.end = None /\ weights # {}) => end = LastAvailable

\* the objective is evaluated at an epoch from start to end
ObjectiveInsideDomain ==
    upc \in { "objective", "tell" } =>
        /\ start # None
        /\ start[1] <= next_x[1]
        /\ next_x[1] <= end

\* the same, for a domain that holds an epoch
ObjectiveInsideDomainThatHoldsAnEpoch ==
    (upc \in { "objective", "tell" } /\ Space(start, end) # {}) =>
        next_x[1] \in Space(start, end)

\* the first evaluation is that of end
FirstEvaluatedIsEnd ==
    (upc \in { "objective", "tell" } /\ calls = 0) => next_x = << end >>

\* C27: the search domain of tune() is [start, end], with start = end = at
\* when 'at' is given and otherwise the given bounds or, by default, the
\* first and the last available epoch at launch time; every epoch the
\* objective is evaluated at lies in [start, end], the first one being end
C27_SearchDomain ==
    /\ SearchBoundsAsDocumented
    /\ ObjectiveInsideDomain
    /\ FirstEvaluatedIsEnd

(***************************************************************************)
(* Properties of apply() and of Binarize                                   *)
(***************************************************************************)
\* what a run of apply() that returns leaves: the prediction of every file
\* under its uri, and a record per file in the MDTM file
AppliedStore == [ uri \in DOMAIN items |-> items[uri].scores ]
AppliedMDTM ==
    [ j \in DOMAIN items |->
        [ uri |-> items[j].uri, modality |-> "speaker",
          segments |-> Binarize(items[j].scores, tune_yml[1].onset,
                                tune_yml[1].offset) ] ]

\* C18: a second run of apply() on the same directory, protocol and subset
\* (of one file at least) does not raise, and leaves the store and the MDTM
\* file as the first did
C18_SecondRunLeavesSameOutputs ==
    /\ (runs >= 2 /\ items # << >>) => apc # "raised"
    /\ apc = "done" =>
           /\ store = AppliedStore
           /\ mdtm = AppliedMDTM

\* frame t is in a segment of the record
ActiveAt(record, t) ==
    \E segment \in Range(record.segments) : segment[1] <= t /\ t < segment[2]

\* frames t - 1 and t are in the same segment of the record
SameSegment(record, t) ==
    \E segment \in Range(record.segments) :
        segment[1] <= t - 1 /\ t < segment[2]

\* the frame before t is in a segment of the record
ActiveBefore(record, t) == t > 1 /\ ActiveAt(record, t - 1)

\* C19: in every segmentation apply() writes, a frame after an inactive
\* one is active exactly when its score reaches onset, and a frame after an
\* active one is active exactly when its score is not below offset; with
\* onset >= offset a frame of an active
\* region whose score is below onset but not below offset is in the same
\* segment as the frame before; with onset = offset the active frames are
\* those whose score reaches the threshold
C19_Hysteresis ==
    \A j \in DOMAIN mdtm :
        LET record == mdtm[j]
            scores == items[record.uri].scores
            onset == tune_[1].onset
            offset == tune_[1].offset
        IN  /\ \A t \in DOMAIN scores :
                   ActiveAt(record, t) <=>
                       IF ActiveBefore(record, t) THEN scores[t] >= offset
                       ELSE scores[t] >= onset
            /\ \A a, b \in DOMAIN record.segments :
                   a < b => record.segments[a][2] < record.segments[b][1]
            /\ onset >= offset =>
                   \A t \in DOMAIN scores \ { 1 } :
                       (/\ ActiveAt(record, t - 1)
                        /\ scores[t] < onset
                        /\ scores[t] >= offset) => SameSegment(record, t)
            /\ onset = offset =>
                   \A t \in DOMAIN scores :
                       ActiveAt(record, t) <=> scores[t] >= onset

\* a segmentation is written whose only segment goes through a dip of
\* the score below onset
C19_Witness ==
    \E j \in DOMAIN mdtm :
        /\ tune_[1].onset > tune_[1].offset
        /\ Len(mdtm[j].segments) = 1
        /\ \E t \in DOMAIN items[mdtm[j].uri].scores :
               /\ t > 1
               /\ items[mdtm[j].uri].scores[t] < tune_[1].onset
               /\ SameSegment(mdtm[j], t)
               /\ t + 1 \in DOMAIN items[mdtm[j].uri].scores
               /\ SameSegment(mdtm[j], t + 1)

\* the records of the first files of the subset, in protocol order, each
\* with the uri of its file
RecordsOfFirst(count) ==
    /\ Len(mdtm) = count
    /\ \A j \in DOMAIN mdtm :
           /\ mdtm[j].uri = items[j].uri
           /\ mdtm[j].modality = "speaker"

\* C28: in a call of apply(), when the binarizer reads a prediction those
\* of all the files of the subset are stored, and none is stored from then
\* on; the metadata file is written with the first file and never again
\* (once for a subset that holds a file, never for one that holds none);
\* the MDTM file gets a record for each file in turn, in protocol order
\* and with the uri of the file, one per file when apply() returns
C28_StoreThenBinarize ==
    /\ [](apc = "binarize" =>
            /\ \A j \in DOMAIN items :
                   /\ items[j].uri \in DOMAIN store
                   /\ store[items[j].uri] = items[j].scores
            /\ RecordsOfFirst(item - 1))
    /\ [](apc = "done" => RecordsOfFirst(Len(items)))
    /\ [](apc = "predict" => config_writes = IF item > 1 THEN 1 ELSE 0)
    /\ [](apc \in { "binarize", "done" } =>
            config_writes = IF items # << >> THEN 1 ELSE 0)
    /\ [](config_writes <= 1)
    /\ [][ config_writes' > config_writes =>
             (apc = "predict" /\ item = 1 /\ config' # None) ]_vars
    /\ [][ apc = "binarize" => store' = store ]_vars

\* apply() has returned from its first run over two files, one with
\* speech and one without
C28_Witness ==
    /\ apc = "done"
    /\ runs = 1
    /\ Len(items) = 2
    /\ config_writes = 1
    /\ RecordsOfFirst(2)
    /\ mdtm[1].segments # << >>
    /\ mdtm[2].segments = << >>

====
